---- MODULE Spec2Model ----
(***************************************************************************)
(* The point-of-sale application: the request handlers of the ASP.NET      *)
(* minimal API over one relational store (Products, Transactions with      *)
(* their TransactionItems) and the React Native screens that call them     *)
(* (product list, POS with its cart and checkout, reports).  Every handler *)
(* runs on its own DbContext; each `await` is one atomic step on the       *)
(* store, so handlers of different requests interleave between awaits.     *)
(* The UpdatedAt and CreatedAt of a product are not part of the state; the *)
(* CreatedAt of a transaction is, read from a clock that counts in parts   *)
(* of a UTC day.  The state space is kept small by giving each             *)
(* specification its own requests: Spec and SpecSeq serve transaction      *)
(* traffic over products on sale, SpecCatalog and SpecEdit serve the       *)
(* catalog handlers, SpecShop serves all handlers, SpecDay lets the clock  *)
(* run, and SpecSearch is the search box of the two product screens.       *)
(* SpecPos is the POS screen selling one product through the backend       *)
(* (SpecPosFair adds that a request sent is answered or fails), SpecCart   *)
(* is its cart over two products, SpecReports is the reports screen.       *)
(***************************************************************************)
EXTENDS Integers, Sequences, FiniteSets, TLC

(* ------------------------------ bounds -------------------------------- *)

\* Rows the Products table may hold.
MaxProducts == 2
\* Transaction requests accepted in one behaviour (stored or in flight).
MaxTransactions == 2
\* Lines of one transaction request.
MaxItems == 2
\* Request handlers of POST /api/transactions that may run at once.
NumRequests == 2

\* Parts a UTC day is counted in, and the last instant the clock reaches.
DayLength == 2
MaxNow == 4
\* Characters of a search term, and of a name or category on a screen.
MaxTerm == 2

\* Width of the zero-padded counter in a transaction number ("000000").
PadWidth == 6
\* Stock below which the dashboard counts a product as low on stock.
LowStockThreshold == 10

Requests == 1..NumRequests

(* --------------------------- input domains ----------------------------- *)

\* JSON null of a nullable reference.
Null == "null"

NameValues == {"Tea"}
\* The members of a Product a JSON body may give.
Fields == {"name", "description", "price", "stock", "category", "image", "isActive"}
\* Statuses a client may write on a transaction, other than the one the
\* handler sets.
StatusValues == {"refunded", "pending"}
\* Prices and stocks a catalog request may carry.
PriceValues == {0, 2}
StockValues == {-1, 0, 1, 2}
\* Stocks of the products on sale.
ShelfStockValues == {0, 1, 2}
\* Quantities a checkout writes on a line, and those any client may write.
CheckoutQtyValues == {1, 2}
ApiQtyValues == {0, 1}
\* Unit price a client writes on a line.
LinePriceValues == {2}
\* What a client adds to subtotal - discount + tax when it sends total.
TotalSkewValues == {0, 1}

(* ------------------------------ state ---------------------------------- *)

VARIABLES
    products,       \* table Products: row i has Id = i
    transactions,   \* table Transactions (with Items): row i has Id = i
    pc,             \* per handler of POST /api/transactions: where it is
    ctx,            \* per handler: its locals and its DbContext's tracked rows
    response,       \* per handler: the result of its last completed request
    call,           \* the catalog request answered last, with its answer
    now,            \* DateTime.UtcNow
    loaded,         \* per product screen: its `products` state
    searchQuery,    \* per product screen: its `searchQuery` state
    posFetching,    \* POS screen: a fetchProducts awaits its response
    cart,           \* POS screen: its `cart` state
    showCheckout,   \* POS screen: its `showCheckout` state
    processing,     \* POS screen: its `processing` state
    alerts,         \* POS screen: the alerts shown, the topmost last
    requests,       \* the bodies the POS screen sent to POST /api/transactions
    pending,        \* which of them await the settling of their fetch
    stats           \* Reports screen: its `stats` state, << >> for null

\* The state of the transaction handlers, of the POS checkout, of the
\* screens, and all of it.
handlers == <<pc, ctx, response>>
checkout == <<posFetching, cart, showCheckout, processing, alerts, requests, pending>>
screens == <<loaded, searchQuery, checkout, stats>>
vars == <<products, transactions, pc, ctx, response, call, now, loaded, searchQuery,
          posFetching, cart, showCheckout, processing, alerts, requests, pending, stats>>

(* --------------------------- pure helpers ------------------------------ *)

RECURSIVE Digits(_)
\* Decimal digits of n >= 0, most significant first.
Digits(n) == IF n < 10 THEN <<n>> ELSE Append(Digits(n \div 10), n % 10)

RECURSIVE ZeroPad(_, _)
\* Left-pad a digit string with zeros to at least w digits.
ZeroPad(ds, w) == IF Len(ds) >= w THEN ds ELSE ZeroPad(<<0>> \o ds, w)

\* $"TXN-{n:000000}"
FormatTransactionNumber(n) == [prefix |-> "TXN-", digits |-> ZeroPad(Digits(n), PadWidth)]

RECURSIVE DigitsValue(_)
\* The number a digit string denotes.
DigitsValue(ds) ==
    IF Len(ds) = 0 THEN 0
    ELSE 10 * DigitsValue(SubSeq(ds, 1, Len(ds) - 1)) + ds[Len(ds)]

RECURSIVE SumTotals(_)
\* Sum of the line totals of a sequence of items.
SumTotals(items) ==
    IF Len(items) = 0 THEN 0 ELSE items[1].total + SumTotals(Tail(items))

RECURSIVE SumQuantity(_, _)
\* Sum of the quantities of the items that name product id.
SumQuantity(items, id) ==
    IF Len(items) = 0 THEN 0
    ELSE (IF items[1].productId = id THEN items[1].quantity ELSE 0)
         + SumQuantity(Tail(items), id)

(* --------------------------- request bodies ---------------------------- *)

\* The lines a client may send with quantities from Q: a line names a product
\* id (stored or not) and carries its own name, price and total.
LineValues(Q) ==
    { [productId |-> p, productName |-> n, price |-> c, quantity |-> q, total |-> c * q] :
        p \in 1..MaxProducts, n \in NameValues, c \in LinePriceValues, q \in Q }

RECURSIVE SeqsUpTo(_, _)
\* All sequences over S of length at most n.
SeqsUpTo(S, n) ==
    IF n = 0 THEN {<< >>}
    ELSE LET shorter == SeqsUpTo(S, n - 1)
         IN  shorter \cup { Append(s, x) : s \in { t \in shorter : Len(t) = n - 1 }, x \in S }

\* The Transaction objects bound from the bodies of a checkout whose members
\* are named as the backend names them: at least one line, positive
\* quantities, tax 0, discount 0, total = subtotal.  (What the POS screen
\* sends is TransactionData, bound by BindTransaction.)
CheckoutBodies ==
    { [items |-> its, subtotal |-> SumTotals(its), tax |-> 0, discount |-> 0,
       total |-> SumTotals(its), status |-> "completed"] :
        its \in SeqsUpTo(LineValues(CheckoutQtyValues), MaxItems) \ {<< >>} }

\* The Transaction objects bound from the bodies any client may send.
ApiBodies ==
    { [items |-> its, subtotal |-> SumTotals(its), tax |-> 0, discount |-> 0,
       total |-> SumTotals(its) + k, status |-> "completed"] :
        its \in SeqsUpTo(LineValues(ApiQtyValues), MaxItems), k \in TotalSkewValues }

\* Those of clients that buy single units of the first product and write a
\* status of their own.
ShopBodies ==
    { [items |-> its, subtotal |-> SumTotals(its), tax |-> 0, discount |-> 0,
       total |-> SumTotals(its), status |-> st] :
        its \in SeqsUpTo({ l \in LineValues({1}) : l.productId = 1 }, MaxItems),
        st \in StatusValues }

\* The Product objects bound from the bodies of POST /api/products: those of
\* the products put on sale, and those any client may send.
ShelfProducts ==
    { [name |-> n, description |-> "Green", price |-> 2, stock |-> s,
       category |-> "Food", image |-> Null, isActive |-> TRUE] :
        n \in NameValues, s \in ShelfStockValues }
ProductBodies ==
    { [name |-> n, description |-> "Green", price |-> c, stock |-> s,
       category |-> "Food", image |-> Null, isActive |-> TRUE] :
        n \in NameValues, c \in PriceValues, s \in StockValues }
\* Those of the products on sale with one unit left.
LastUnits == { product \in ShelfProducts : product.stock = 1 }
\* Those of a shop whose stocks lie on both sides of the low-stock threshold.
ShopProducts ==
    { [name |-> n, description |-> "Green", price |-> 2, stock |-> s,
       category |-> "Food", image |-> Null, isActive |-> TRUE] :
        n \in NameValues, s \in {5, LowStockThreshold} }
\* The one product of the edit screen.
EditProducts ==
    { [name |-> n, description |-> "Green", price |-> 2, stock |-> 5,
       category |-> "Food", image |-> Null, isActive |-> TRUE] : n \in NameValues }

\* A JSON body of PUT /api/products/{id}: `has` holds the members the body
\* gives, the other entries of the record are read for those members only.
\* UpdateBodies give price, stock and isActive, and name as null or not at all.
UpdateBodies ==
    { [has |-> h, name |-> Null, description |-> "", price |-> c, stock |-> s,
       category |-> "", image |-> Null, isActive |-> a] :
        h \in {{"name", "price", "stock", "isActive"}, {"price", "stock", "isActive"}},
        c \in PriceValues, s \in StockValues, a \in BOOLEAN }
\* EditBodies give any members, each with a value no product was created with.
EditBodies ==
    { [has |-> h, name |-> "Mug", description |-> "Black", price |-> 3, stock |-> 7,
       category |-> "Drinks", image |-> "png", isActive |-> FALSE] :
        h \in SUBSET Fields }
\* StockOutBodies is the body the edit screen sends when the stock field, and
\* no other, was changed to 0.
StockOutBodies ==
    { [has |-> {"stock"}, name |-> "", description |-> "", price |-> 0, stock |-> 0,
       category |-> "", image |-> Null, isActive |-> FALSE] }
\* DeliveryBodies give the stock after a delivery.
DeliveryBodies ==
    { [has |-> {"stock"}, name |-> "", description |-> "", price |-> 0, stock |-> 2,
       category |-> "", image |-> Null, isActive |-> FALSE] }
\* ShopUpdates are those of a shop: a new price, or a delivery.
ShopUpdates ==
    { [has |-> {"price"}, name |-> "", description |-> "", price |-> 3, stock |-> 0,
       category |-> "", image |-> Null, isActive |-> FALSE],
      [has |-> {"stock"}, name |-> "", description |-> "", price |-> 0,
       stock |-> LowStockThreshold, category |-> "", image |-> Null, isActive |-> FALSE] }

\* The Product object System.Text.Json binds from a JSON body: a member the
\* body gives is set, any other keeps the value of its property initializer.
BindProduct(body) ==
    [name |-> IF "name" \in body.has THEN body.name ELSE "",
     description |-> IF "description" \in body.has THEN body.description ELSE "",
     price |-> IF "price" \in body.has THEN body.price ELSE 0,
     stock |-> IF "stock" \in body.has THEN body.stock ELSE 0,
     category |-> IF "category" \in body.has THEN body.category ELSE "General",
     image |-> IF "image" \in body.has THEN body.image ELSE Null,
     isActive |-> IF "isActive" \in body.has THEN body.isActive ELSE TRUE]

(* ------------------------------- Init ---------------------------------- *)

\* A handler that serves no request holds nothing.
NoBody ==
    [items |-> << >>, subtotal |-> 0, tax |-> 0, discount |-> 0, total |-> 0,
     status |-> "completed"]
IdleCtx == [body |-> NoBody, count |-> 0, createdAt |-> 0, next |-> 0, tracked |-> << >>]
\* No catalog request answered yet.
NoCall == [op |-> "none", id |-> 0, has |-> {}, status |-> "none", foundActive |-> FALSE]
\* The two screens with a product list and a search box.
Screens == {"products", "pos"}

Init ==
    /\ products = << >>
    /\ transactions = << >>
    /\ pc = [r \in Requests |-> "idle"]
    /\ ctx = [r \in Requests |-> IdleCtx]
    /\ response = [r \in Requests |-> "none"]
    /\ call = NoCall
    /\ now = 0
    /\ loaded = [s \in Screens |-> << >>]
    /\ searchQuery = [s \in Screens |-> << >>]
    /\ posFetching = TRUE
    /\ cart = << >>
    /\ showCheckout = FALSE
    /\ processing = FALSE
    /\ alerts = << >>
    /\ requests = << >>
    /\ pending = {}
    /\ stats = << >>

(* --------------------------- catalog handlers -------------------------- *)

\* POST /api/products: the bound product is stored as it is.
PostProduct(product) ==
    /\ Len(products) < MaxProducts
    /\ products' = Append(products, product)
    /\ call' = [op |-> "POST", id |-> Len(products) + 1, has |-> {},
                status |-> "Created", foundActive |-> FALSE]
    /\ UNCHANGED <<transactions, handlers, now, screens>>

\* The merge of PUT /api/products/{id}.
MergeProduct(product, update) ==
    [name |-> IF update.name # Null THEN update.name ELSE product.name,
     description |->
        IF update.description # Null THEN update.description ELSE product.description,
     price |-> IF update.price # 0 THEN update.price ELSE product.price,
     stock |-> IF update.stock # 0 THEN update.stock ELSE product.stock,
     category |-> IF update.category # Null THEN update.category ELSE product.category,
     image |-> IF update.image # Null THEN update.image ELSE product.image,
     isActive |-> update.isActive]

\* PutProduct that also writes the new price on the stored lines of the product.
PutProductRewritesLines(id, body) ==
    /\ IF id \in DOMAIN products
       THEN /\ products' =
                  [products EXCEPT ![id] = MergeProduct(products[id], BindProduct(body))]
            /\ transactions' =
                  [i \in DOMAIN transactions |->
                     [transactions[i] EXCEPT !.items =
                        [j \in DOMAIN @ |->
                           IF @[j].productId = id
                           THEN [@[j] EXCEPT !.price = products'[id].price]
                           ELSE @[j]]]]
            /\ call' = [op |-> "PUT", id |-> id, has |-> body.has, status |-> "Ok",
                        foundActive |-> products[id].isActive]
       ELSE /\ call' = [op |-> "PUT", id |-> id, has |-> body.has,
                        status |-> "NotFound", foundActive |-> FALSE]
            /\ UNCHANGED <<products, transactions>>
    /\ UNCHANGED <<handlers, now, screens>>

\* PUT /api/products/{id}.  The handler writes values that do not depend on
\* what it read, so it acts as one step at its SaveChangesAsync.
PutProduct(id, body) ==
    /\ IF id \in DOMAIN products
       THEN /\ products' =
                  [products EXCEPT ![id] = MergeProduct(products[id], BindProduct(body))]
            /\ call' = [op |-> "PUT", id |-> id, has |-> body.has, status |-> "Ok",
                        foundActive |-> products[id].isActive]
       ELSE /\ call' = [op |-> "PUT", id |-> id, has |-> body.has,
                        status |-> "NotFound", foundActive |-> FALSE]
            /\ UNCHANGED products
    /\ UNCHANGED <<transactions, handlers, now, screens>>

\* DeleteProduct that flips the active flag of the product it finds.
DeleteProductToggles(id) ==
    /\ IF id \in DOMAIN products
       THEN /\ products' = [products EXCEPT ![id].isActive = ~@]
            /\ call' = [op |-> "DELETE", id |-> id, has |-> {}, status |-> "Ok",
                        foundActive |-> products[id].isActive]
       ELSE /\ call' = [op |-> "DELETE", id |-> id, has |-> {},
                        status |-> "NotFound", foundActive |-> FALSE]
            /\ UNCHANGED products
    /\ UNCHANGED <<transactions, handlers, now, screens>>

\* DELETE /api/products/{id}.
DeleteProduct(id) ==
    /\ IF id \in DOMAIN products
       THEN /\ products' = [products EXCEPT ![id].isActive = FALSE]
            /\ call' = [op |-> "DELETE", id |-> id, has |-> {}, status |-> "Ok",
                        foundActive |-> products[id].isActive]
       ELSE /\ call' = [op |-> "DELETE", id |-> id, has |-> {},
                        status |-> "NotFound", foundActive |-> FALSE]
            /\ UNCHANGED products
    /\ UNCHANGED <<transactions, handlers, now, screens>>

(* ---------------------- POST /api/transactions ------------------------- *)

InFlight == { r \in Requests : pc[r] # "idle" }

\* The handler is entered with the bound body and awaits CountAsync.
CountTransactions(r, body) ==
    /\ pc[r] = "idle"
    /\ Len(transactions) + Cardinality(InFlight) < MaxTransactions
    /\ pc' = [pc EXCEPT ![r] = IF Len(body.items) = 0 THEN "save" ELSE "items"]
    /\ ctx' = [ctx EXCEPT ![r] = [body |-> body, count |-> Len(transactions),
                                  createdAt |-> now, next |-> 1, tracked |-> << >>]]
    /\ response' = [response EXCEPT ![r] = "none"]
    /\ UNCHANGED <<products, transactions, call, now, screens>>

\* Whether FindAsync(id) gives a handler an entity (not null): its context
\* tracks one, or the row is stored.
Found(r, id) == id \in DOMAIN ctx[r].tracked \/ id \in DOMAIN products

\* The entity FindAsync(id) gives a handler when it is not null: the one its
\* context tracks, else the stored row, tracked from now on.
FindAsync(r, id) ==
    IF id \in DOMAIN ctx[r].tracked THEN ctx[r].tracked[id]
    ELSE [original |-> products[id].stock, stock |-> products[id].stock]

\* One turn of the foreach: await FindAsync, then decrement the entity found.
FindProduct(r) ==
    /\ pc[r] = "items"
    /\ LET c == ctx[r]
           item == c.body.items[c.next]
           tracked ==
               IF ~Found(r, item.productId) THEN c.tracked
               ELSE [id \in DOMAIN c.tracked \cup {item.productId} |->
                        IF id = item.productId
                        THEN [FindAsync(r, id) EXCEPT !.stock = @ - item.quantity]
                        ELSE c.tracked[id]]
       IN  /\ ctx' = [ctx EXCEPT ![r] = [c EXCEPT !.next = @ + 1, !.tracked = tracked]]
           /\ pc' = [pc EXCEPT ![r] = IF c.next = Len(c.body.items) THEN "save" ELSE "items"]
    /\ UNCHANGED <<products, transactions, response, call, now, screens>>

\* NewTransaction with the number taken from the request's own line count
\* instead of the count of stored transactions.
NewTransactionNumberedByLines(r) ==
    [transactionNumber |-> FormatTransactionNumber(Len(ctx[r].body.items) + 1),
     createdAt |-> ctx[r].createdAt,
     status |-> "completed",
     subtotal |-> ctx[r].body.subtotal,
     tax |-> ctx[r].body.tax,
     discount |-> ctx[r].body.discount,
     total |-> ctx[r].body.total,
     items |-> ctx[r].body.items]

\* NewTransaction with the status the request gave.
NewTransactionWithGivenStatus(r) ==
    [transactionNumber |-> FormatTransactionNumber(ctx[r].count + 1),
     createdAt |-> ctx[r].createdAt,
     status |-> ctx[r].body.status,
     subtotal |-> ctx[r].body.subtotal,
     tax |-> ctx[r].body.tax,
     discount |-> ctx[r].body.discount,
     total |-> ctx[r].body.total,
     items |-> ctx[r].body.items]

\* The Transaction row a handler adds.
NewTransaction(r) ==
    [transactionNumber |-> FormatTransactionNumber(ctx[r].count + 1),
     createdAt |-> ctx[r].createdAt,
     status |-> "completed",
     subtotal |-> ctx[r].body.subtotal,
     tax |-> ctx[r].body.tax,
     discount |-> ctx[r].body.discount,
     total |-> ctx[r].body.total,
     items |-> ctx[r].body.items]

\* The Products table after a handler's context has written its changed
\* entities: an UPDATE sets the columns whose value differs from the one read.
WriteTracked(r) ==
    [id \in DOMAIN products |->
        IF id \in DOMAIN ctx[r].tracked
           /\ ctx[r].tracked[id].stock # ctx[r].tracked[id].original
        THEN [products[id] EXCEPT !.stock = ctx[r].tracked[id].stock]
        ELSE products[id]]

\* SaveChangesAsync commits: the stock updates and the insert, in one
\* database transaction; the handler answers 201.
SaveChanges(r) ==
    /\ pc[r] = "save"
    /\ products' = WriteTracked(r)
    /\ transactions' = Append(transactions, NewTransaction(r))
    /\ pc' = [pc EXCEPT ![r] = "idle"]
    /\ ctx' = [ctx EXCEPT ![r] = IdleCtx]
    /\ response' = [response EXCEPT ![r] = "Created"]
    /\ UNCHANGED <<call, now, screens>>

\* SaveChangesFails on a store that keeps the stock updates made before the
\* failing insert (no enclosing database transaction).
SaveChangesFailsHalfWritten(r) ==
    /\ pc[r] = "save"
    /\ products' = [id \in DOMAIN products |->
                      IF id \in DOMAIN ctx[r].tracked
                      THEN [products[id] EXCEPT !.stock = ctx[r].tracked[id].stock]
                      ELSE products[id]]
    /\ pc' = [pc EXCEPT ![r] = "idle"]
    /\ ctx' = [ctx EXCEPT ![r] = IdleCtx]
    /\ response' = [response EXCEPT ![r] = "Error"]
    /\ UNCHANGED <<transactions, call, now, screens>>

\* SaveChangesAsync throws (the store fails): its database transaction is
\* rolled back and the request ends with status 500.
SaveChangesFails(r) ==
    /\ pc[r] = "save"
    /\ pc' = [pc EXCEPT ![r] = "idle"]
    /\ ctx' = [ctx EXCEPT ![r] = IdleCtx]
    /\ response' = [response EXCEPT ![r] = "Error"]
    /\ UNCHANGED <<products, transactions, call, now, screens>>

(* ------------------------------ queries -------------------------------- *)

\* GetProducts without the filter on IsActive.
GetProductsOfAll == [id \in DOMAIN products |-> [id |-> id, product |-> products[id]]]

\* GET /api/products: the stored products whose IsActive is set, each with
\* its Id, as one query of the store.
GetProducts ==
    SelectSeq([id \in DOMAIN products |-> [id |-> id, product |-> products[id]]],
              LAMBDA row : row.product.isActive)

\* GetProduct that finds active products only.
GetProductOfActive(id) ==
    IF id \in DOMAIN products /\ products[id].isActive
    THEN [status |-> "Ok", body |-> <<[id |-> id, product |-> products[id]]>>]
    ELSE [status |-> "NotFound", body |-> << >>]

\* GET /api/products/{id}: the row FindAsync gives (in `body`), or 404.
GetProduct(id) ==
    IF id \in DOMAIN products
    THEN [status |-> "Ok", body |-> <<[id |-> id, product |-> products[id]]>>]
    ELSE [status |-> "NotFound", body |-> << >>]

\* DateTime.Date: the instant a day starts.
Date(t) == t - (t % DayLength)

\* GET /api/dashboard/stats.  Each figure is one query of the store.
TodayStart == Date(now)
\* TodaySales without the filter on CreatedAt.
TodaySalesOfAllDays == transactions
TodaySales == SelectSeq(transactions, LAMBDA t : t.createdAt >= TodayStart)
TodayRevenue == SumTotals(TodaySales)
TodayTransactions == Len(TodaySales)
\* LowStockCount without the test of IsActive.
LowStockCountOfAll == Len(SelectSeq(products, LAMBDA p : p.stock < LowStockThreshold))
LowStockCount ==
    Len(SelectSeq(products, LAMBDA p : p.stock < LowStockThreshold /\ p.isActive))

TotalProducts == Len(SelectSeq(products, LAMBDA p : p.isActive))
TotalTransactions == Len(transactions)
\* The body of its response: the anonymous object, serialized with its member
\* names as they are written (they are camel-case already).
StatsResponse ==
    [totalProducts |-> TotalProducts,
     totalTransactions |-> TotalTransactions,
     todayRevenue |-> TodayRevenue,
     todayTransactions |-> TodayTransactions,
     lowStockCount |-> LowStockCount]

\* The clock moves on.
Tick ==
    /\ now < MaxNow
    /\ now' = now + 1
    /\ UNCHANGED <<products, transactions, handlers, call, screens>>

(* --------------------------- product screens --------------------------- *)

\* Characters of the texts on a screen; a text is a sequence of them.
Alphabet == {"a", "A", "b", "B"}
\* What a user may type into a search box.
Terms == SeqsUpTo(Alphabet, MaxTerm)
\* The products a response of GET /api/products may list.
ScreenProducts ==
    { [name |-> n, category |-> c, stock |-> k] :
        n \in {<<"A", "b">>}, c \in {<<"a">>, <<"B", "B">>}, k \in {0, 1} }
Responses == SeqsUpTo(ScreenProducts, MaxProducts)

\* String.prototype.toLowerCase and String.prototype.includes.
LowerChar(c) == CASE c = "A" -> "a" [] c = "B" -> "b" [] OTHER -> c
ToLowerCase(text) == [i \in DOMAIN text |-> LowerChar(text[i])]
Includes(text, part) ==
    \E i \in 0..(Len(text) - Len(part)) : SubSeq(text, i + 1, i + Len(part)) = part

\* FilteredProducts that compares with the search text as it was typed.
FilteredProductsByTypedText ==
    SelectSeq(loaded["products"], LAMBDA product :
        \/ Includes(ToLowerCase(product.name), searchQuery["products"])
        \/ Includes(ToLowerCase(product.category), searchQuery["products"]))

\* filteredProducts of the Products screen and of the POS screen.
FilteredProducts ==
    SelectSeq(loaded["products"], LAMBDA product :
        \/ Includes(ToLowerCase(product.name), ToLowerCase(searchQuery["products"]))
        \/ Includes(ToLowerCase(product.category), ToLowerCase(searchQuery["products"])))
PosFilteredProducts ==
    SelectSeq(loaded["pos"], LAMBDA product :
        \/ Includes(ToLowerCase(product.name), ToLowerCase(searchQuery["pos"]))
        \/ Includes(ToLowerCase(product.category), ToLowerCase(searchQuery["pos"])))

\* fetchProducts of the Products screen: the response becomes the list.
FetchProducts(data) ==
    /\ loaded' = [loaded EXCEPT !["products"] = data]
    /\ UNCHANGED <<products, transactions, handlers, call, now, searchQuery, checkout, stats>>

\* fetchProducts of the POS screen: the products in stock become the list.
\* It is called when the screen mounts and when a sale was acknowledged; this
\* is the arrival of its response.
PosFetchProducts(data) ==
    /\ posFetching
    /\ posFetching' = FALSE
    /\ loaded' = [loaded EXCEPT !["pos"] = SelectSeq(data, LAMBDA p : p.stock > 0)]
    /\ UNCHANGED <<products, transactions, handlers, call, now, searchQuery, stats,
                   cart, showCheckout, processing, alerts, requests, pending>>

\* onChangeText of a screen's search box.
SetSearchQuery(screen, text) ==
    /\ searchQuery' = [searchQuery EXCEPT ![screen] = text]
    /\ UNCHANGED <<products, transactions, handlers, call, now, loaded, checkout, stats>>

(* --------------------------- Reports screen ---------------------------- *)

\* fetchStats of the Reports screen with a response that is ok: the parsed
\* body becomes `stats`.  (Any other outcome leaves `stats` as it is.)
FetchStats ==
    /\ stats' = <<StatsResponse>>
    /\ UNCHANGED <<products, transactions, handlers, call, now, loaded, searchQuery,
                   checkout>>

\* The value of the JavaScript expression object.member, in a sequence of
\* one; the empty sequence is `undefined`, the value when there is no such
\* member.
Member(object, member) ==
    IF member \in DOMAIN object THEN <<object[member]>> ELSE << >>

\* The members of `stats` that statCards and alertCards read.
StatCards ==
    [today_revenue |-> Member(stats[1], "today_revenue"),
     today_transactions |-> Member(stats[1], "today_transactions"),
     total_products |-> Member(stats[1], "total_products"),
     total_transactions |-> Member(stats[1], "total_transactions"),
     low_stock_count |-> Member(stats[1], "low_stock_count")]

(* ----------------------------- POS screen ------------------------------ *)

\* The body of a response of GET /api/products as the POS screen reads it:
\* the members id, name, category, price and stock of each listed product.
\* (Its texts are whole strings: they are shown and sent, not searched.)
ProductsResponse ==
    [i \in DOMAIN GetProducts |->
        [id |-> GetProducts[i].id,
         name |-> GetProducts[i].product.name,
         category |-> GetProducts[i].product.category,
         price |-> GetProducts[i].product.price,
         stock |-> GetProducts[i].product.stock]]

\* fetchProducts of the POS screen ends in its catch: the list stays.
PosFetchProductsFails ==
    /\ posFetching
    /\ posFetching' = FALSE
    /\ alerts' = Append(alerts, "load")
    /\ UNCHANGED <<products, transactions, handlers, call, now, loaded, searchQuery,
                   stats, cart, showCheckout, processing, requests, pending>>

\* The user can touch the product grid and the cart summary: no alert is
\* shown and the checkout modal is closed.
GridShown == alerts = << >> /\ ~showCheckout
\* The user can touch the checkout modal.
ModalShown == alerts = << >> /\ showCheckout

\* prevCart.find(item => item.product.id === id): the positions that match.
CartPositions(id) == { i \in DOMAIN cart : cart[i].product.id = id }

\* AddToCart that always appends an entry.
AddToCartAppends(product) ==
    /\ GridShown
    /\ \E i \in DOMAIN loaded["pos"] : loaded["pos"][i] = product
    /\ cart' = Append(cart, [product |-> product, quantity |-> 1])
    /\ UNCHANGED alerts
    /\ UNCHANGED <<products, transactions, handlers, call, now, loaded, searchQuery,
                   stats, posFetching, showCheckout, processing, requests, pending>>

\* addToCart(product), on a press of a card of the product grid.
AddToCart(product) ==
    /\ GridShown
    /\ \E i \in DOMAIN loaded["pos"] : loaded["pos"][i] = product
    /\ IF CartPositions(product.id) # {}
       THEN LET existingItem ==
                    cart[CHOOSE i \in CartPositions(product.id) :
                            \A j \in CartPositions(product.id) : i <= j]
            IN  IF existingItem.quantity >= product.stock
                THEN /\ alerts' = Append(alerts, "stock")
                     /\ UNCHANGED cart
                ELSE /\ cart' = [i \in DOMAIN cart |->
                                   IF cart[i].product.id = product.id
                                   THEN [cart[i] EXCEPT !.quantity = @ + 1]
                                   ELSE cart[i]]
                     /\ UNCHANGED alerts
       ELSE /\ cart' = Append(cart, [product |-> product, quantity |-> 1])
            /\ UNCHANGED alerts
    /\ UNCHANGED <<products, transactions, handlers, call, now, loaded, searchQuery,
                   stats, posFetching, showCheckout, processing, requests, pending>>

\* The cart without the entries of product id.
WithoutProduct(id) == SelectSeq(cart, LAMBDA item : item.product.id # id)

\* Math.min
Min(a, b) == IF a <= b THEN a ELSE b

\* updateCartItemQuantity(productId, newQuantity), on a press of the minus or
\* the plus button of a cart line in the checkout modal.
UpdateCartItemQuantity(productId, newQuantity) ==
    /\ ModalShown
    /\ cart' = IF newQuantity <= 0
               THEN WithoutProduct(productId)
               ELSE [i \in DOMAIN cart |->
                       IF cart[i].product.id = productId
                       THEN [cart[i] EXCEPT
                               !.quantity = Min(newQuantity, cart[i].product.stock)]
                       ELSE cart[i]]
    /\ UNCHANGED <<products, transactions, handlers, call, now, loaded, searchQuery,
                   stats, posFetching, showCheckout, processing, alerts, requests, pending>>

\* removeFromCart(productId), on a press of the trash button of a cart line.
RemoveFromCart(productId) ==
    /\ ModalShown
    /\ cart' = WithoutProduct(productId)
    /\ UNCHANGED <<products, transactions, handlers, call, now, loaded, searchQuery,
                   stats, posFetching, showCheckout, processing, alerts, requests, pending>>

\* clearCart, on a press of Clear in the cart summary.
ClearCart ==
    /\ GridShown
    /\ Len(cart) > 0
    /\ cart' = << >>
    /\ UNCHANGED <<products, transactions, handlers, call, now, loaded, searchQuery,
                   stats, posFetching, showCheckout, processing, alerts, requests, pending>>

\* setShowCheckout: Checkout in the cart summary opens the modal, its close
\* button closes it.
OpenCheckout ==
    /\ GridShown
    /\ Len(cart) > 0
    /\ showCheckout' = TRUE
    /\ UNCHANGED <<products, transactions, handlers, call, now, loaded, searchQuery,
                   stats, posFetching, cart, processing, alerts, requests, pending>>
CloseCheckout ==
    /\ ModalShown
    /\ showCheckout' = FALSE
    /\ UNCHANGED <<products, transactions, handlers, call, now, loaded, searchQuery,
                   stats, posFetching, cart, processing, alerts, requests, pending>>

RECURSIVE CartTotal(_)
\* cart.reduce((sum, item) => sum + item.product.price * item.quantity, 0)
CartTotal(items) ==
    IF Len(items) = 0 THEN 0
    ELSE items[1].product.price * items[1].quantity + CartTotal(Tail(items))
CalculateTotal == CartTotal(cart)

\* transactionData: the JSON body of the request, a record of its members.
TransactionData ==
    [items |-> [i \in DOMAIN cart |->
                  [product_id |-> cart[i].product.id,
                   product_name |-> cart[i].product.name,
                   price |-> cart[i].product.price,
                   quantity |-> cart[i].quantity,
                   total |-> cart[i].product.price * cart[i].quantity]],
     subtotal |-> CalculateTotal,
     tax |-> 0,
     discount |-> 0,
     total |-> CalculateTotal,
     payment_method |-> "cash"]

\* The TransactionItem and the Transaction System.Text.Json binds from a JSON
\* body: a member is set from the JSON member whose name is the camel-case name
\* of the property (letter case aside); any other JSON member is skipped, and a
\* property without one keeps its initializer or default.
BindItem(json) ==
    [productId |-> IF "productId" \in DOMAIN json THEN json.productId ELSE 0,
     productName |-> IF "productName" \in DOMAIN json THEN json.productName ELSE "",
     price |-> IF "price" \in DOMAIN json THEN json.price ELSE 0,
     quantity |-> IF "quantity" \in DOMAIN json THEN json.quantity ELSE 0,
     total |-> IF "total" \in DOMAIN json THEN json.total ELSE 0]
BindTransaction(json) ==
    [items |-> IF "items" \in DOMAIN json
               THEN [i \in DOMAIN json.items |-> BindItem(json.items[i])]
               ELSE << >>,
     subtotal |-> IF "subtotal" \in DOMAIN json THEN json.subtotal ELSE 0,
     tax |-> IF "tax" \in DOMAIN json THEN json.tax ELSE 0,
     discount |-> IF "discount" \in DOMAIN json THEN json.discount ELSE 0,
     total |-> IF "total" \in DOMAIN json THEN json.total ELSE 0,
     status |-> IF "status" \in DOMAIN json THEN json.status ELSE "completed"]

\* ProcessTransaction with a button that is never disabled.
ProcessTransactionAtAnyTime ==
    /\ ModalShown
    /\ IF Len(cart) = 0
       THEN /\ alerts' = Append(alerts, "empty")
            /\ UNCHANGED <<processing, requests, pending>>
       ELSE /\ Len(requests) < NumRequests
            /\ processing' = TRUE
            /\ requests' = Append(requests, TransactionData)
            /\ pending' = pending \cup {Len(requests) + 1}
            /\ UNCHANGED alerts
    /\ UNCHANGED <<products, transactions, handlers, call, now, loaded, searchQuery,
                   stats, posFetching, cart, showCheckout>>

\* ProcessTransaction without the test of the empty cart.
ProcessTransactionOfAnyCart ==
    /\ ModalShown
    /\ ~processing
    /\ Len(requests) < NumRequests
    /\ processing' = TRUE
    /\ requests' = Append(requests, TransactionData)
    /\ pending' = pending \cup {Len(requests) + 1}
    /\ UNCHANGED alerts
    /\ UNCHANGED <<products, transactions, handlers, call, now, loaded, searchQuery,
                   stats, posFetching, cart, showCheckout>>

\* processTransaction up to its fetch, on a press of Complete Transaction,
\* which is disabled while `processing` is set.  The n-th request sent is the
\* one handler n serves.
ProcessTransaction ==
    /\ ModalShown
    /\ ~processing
    /\ IF Len(cart) = 0
       THEN /\ alerts' = Append(alerts, "empty")
            /\ UNCHANGED <<processing, requests, pending>>
       ELSE /\ Len(requests) < NumRequests
            /\ processing' = TRUE
            /\ requests' = Append(requests, TransactionData)
            /\ pending' = pending \cup {Len(requests) + 1}
            /\ UNCHANGED alerts
    /\ UNCHANGED <<products, transactions, handlers, call, now, loaded, searchQuery,
                   stats, posFetching, cart, showCheckout>>

\* The request of a pending fetch reaches the backend: handler n is entered
\* with the transaction bound from its body.
ServeCheckout(n) ==
    /\ n \in pending
    /\ response[n] = "none"
    /\ CountTransactions(n, BindTransaction(requests[n]))

\* ReceiveResponse that clears `processing` after a success only.
ReceiveResponseKeepsFlagOnError(n) ==
    /\ n \in pending
    /\ pc[n] = "idle"
    /\ response[n] \in {"Created", "Error"}
    /\ alerts' = Append(alerts, IF response[n] = "Created" THEN "success" ELSE "error")
    /\ processing' = (response[n] # "Created" /\ processing)
    /\ pending' = pending \ {n}
    /\ UNCHANGED <<products, transactions, handlers, call, now, loaded, searchQuery,
                   stats, posFetching, cart, showCheckout, requests>>

\* processTransaction from the response of its fetch on: the alert of the
\* success or of the failure, and the finally.
ReceiveResponse(n) ==
    /\ n \in pending
    /\ pc[n] = "idle"
    /\ response[n] \in {"Created", "Error"}
    /\ alerts' = Append(alerts, IF response[n] = "Created" THEN "success" ELSE "error")
    /\ processing' = FALSE
    /\ pending' = pending \ {n}
    /\ UNCHANGED <<products, transactions, handlers, call, now, loaded, searchQuery,
                   stats, posFetching, cart, showCheckout, requests>>

\* processTransaction when its fetch rejects: the catch and the finally.  The
\* request may have reached the backend or not.
NetworkFails(n) ==
    /\ n \in pending
    /\ alerts' = Append(alerts, "network")
    /\ processing' = FALSE
    /\ pending' = pending \ {n}
    /\ UNCHANGED <<products, transactions, handlers, call, now, loaded, searchQuery,
                   stats, posFetching, cart, showCheckout, requests>>

\* DismissAlert that empties the cart whatever the alert said.
DismissAlertClearsCart ==
    /\ alerts # << >>
    /\ alerts' = SubSeq(alerts, 1, Len(alerts) - 1)
    /\ cart' = << >>
    /\ IF alerts[Len(alerts)] = "success"
       THEN /\ showCheckout' = FALSE
            /\ posFetching' = TRUE
       ELSE UNCHANGED <<showCheckout, posFetching>>
    /\ UNCHANGED <<products, transactions, handlers, call, now, loaded, searchQuery,
                   stats, processing, requests, pending>>

\* The user presses OK on the topmost alert; the OK of the success alert runs
\* clearCart, setShowCheckout(false) and fetchProducts.
DismissAlert ==
    /\ alerts # << >>
    /\ alerts' = SubSeq(alerts, 1, Len(alerts) - 1)
    /\ IF alerts[Len(alerts)] = "success"
       THEN /\ cart' = << >>
            /\ showCheckout' = FALSE
            /\ posFetching' = TRUE
       ELSE UNCHANGED <<cart, showCheckout, posFetching>>
    /\ UNCHANGED <<products, transactions, handlers, call, now, loaded, searchQuery,
                   stats, processing, requests, pending>>

(* --------------------------- specifications ---------------------------- *)

\* Checkouts served concurrently over the products on sale.
Next ==
    \/ \E product \in ShelfProducts : PostProduct(product)
    \/ \E r \in Requests, body \in CheckoutBodies : CountTransactions(r, body)
    \/ \E r \in Requests : FindProduct(r)
    \/ \E r \in Requests : SaveChanges(r)
    \/ \E r \in Requests : SaveChangesFails(r)

Spec == Init /\ [][Next]_vars

\* Transaction requests of any client, served one after another (by the
\* first handler: which one serves makes no difference when none overlap).
NextSeq ==
    \/ \E product \in ShelfProducts : PostProduct(product)
    \/ \E body \in ApiBodies : CountTransactions(1, body)
    \/ FindProduct(1)
    \/ SaveChanges(1)
    \/ SaveChangesFails(1)

SpecSeq == Init /\ [][NextSeq]_vars

\* The catalog handlers alone, with the bodies any client may send.
NextCatalog ==
    \/ \E product \in ProductBodies : PostProduct(product)
    \/ \E id \in 1..MaxProducts, update \in UpdateBodies : PutProduct(id, update)
    \/ \E id \in 1..MaxProducts : DeleteProduct(id)

SpecCatalog == Init /\ [][NextCatalog]_vars

\* The catalog handlers over one product, with bodies that give any members.
NextEdit ==
    \/ products = << >> /\ \E product \in EditProducts : PostProduct(product)
    \/ \E id \in 1..MaxProducts, body \in EditBodies \cup StockOutBodies :
          PutProduct(id, body)
    \/ \E id \in 1..MaxProducts : DeleteProduct(id)

SpecEdit == Init /\ [][NextEdit]_vars

\* All handlers that write: the catalog of a shop, and its sales served one
\* after another.
NextShop ==
    \/ \E product \in ShopProducts : PostProduct(product)
    \/ \E id \in 1..MaxProducts, body \in ShopUpdates : PutProduct(id, body)
    \/ \E id \in 1..MaxProducts : DeleteProduct(id)
    \/ \E body \in ShopBodies : CountTransactions(1, body)
    \/ FindProduct(1)
    \/ SaveChanges(1)
    \/ SaveChangesFails(1)

SpecShop == Init /\ [][NextShop]_vars

\* Sales served one after another while the clock runs.
NextDay ==
    \/ \E body \in ShopBodies : CountTransactions(1, body)
    \/ FindProduct(1)
    \/ SaveChanges(1)
    \/ SaveChangesFails(1)
    \/ Tick

SpecDay == Init /\ [][NextDay]_vars

\* The search boxes of the two product screens.
NextSearch ==
    \/ \E data \in Responses : FetchProducts(data)
    \/ \E data \in Responses : PosFetchProducts(data)
    \/ \E screen \in Screens, text \in Terms : SetSearchQuery(screen, text)

SpecSearch == Init /\ [][NextSearch]_vars

\* The POS screen of one device over a catalog of one product that receives
\* deliveries, and the handlers that serve its checkouts.
NextPos ==
    \/ products = << >> /\ \E product \in LastUnits : PostProduct(product)
    \/ \E id \in 1..MaxProducts, body \in DeliveryBodies : PutProduct(id, body)
    \/ PosFetchProducts(ProductsResponse)
    \/ PosFetchProductsFails
    \/ \E i \in DOMAIN loaded["pos"] : AddToCart(loaded["pos"][i])
    \/ \E i \in DOMAIN cart, d \in {-1, 1} :
          UpdateCartItemQuantity(cart[i].product.id, cart[i].quantity + d)
    \/ \E i \in DOMAIN cart : RemoveFromCart(cart[i].product.id)
    \/ ClearCart
    \/ OpenCheckout
    \/ CloseCheckout
    \/ ProcessTransaction
    \/ \E n \in Requests : ServeCheckout(n)
    \/ \E n \in Requests : FindProduct(n)
    \/ \E n \in Requests : SaveChanges(n)
    \/ \E n \in Requests : SaveChangesFails(n)
    \/ \E n \in Requests : ReceiveResponse(n)
    \/ \E n \in Requests : NetworkFails(n)
    \/ DismissAlert

SpecPos == Init /\ [][NextPos]_vars

\* The same, where the fetch of a request sent settles: its promise is
\* resolved with a response or rejected.
SpecPosFair ==
    SpecPos /\ WF_vars(\E n \in Requests : ReceiveResponse(n) \/ NetworkFails(n))

\* The Reports screen of a shop with sales.
NextReports ==
    \/ \E product \in ShopProducts : PostProduct(product)
    \/ \E id \in 1..MaxProducts : DeleteProduct(id)
    \/ \E body \in ShopBodies : CountTransactions(1, body)
    \/ FindProduct(1)
    \/ SaveChanges(1)
    \/ SaveChangesFails(1)
    \/ FetchStats

SpecReports == Init /\ [][NextReports]_vars

\* The cart of the POS screen over the products on sale.
NextCart ==
    \/ \E product \in ShelfProducts : PostProduct(product)
    \/ PosFetchProducts(ProductsResponse)
    \/ PosFetchProductsFails
    \/ \E i \in DOMAIN loaded["pos"] : AddToCart(loaded["pos"][i])
    \/ \E i \in DOMAIN cart, d \in {-1, 1} :
          UpdateCartItemQuantity(cart[i].product.id, cart[i].quantity + d)
    \/ \E i \in DOMAIN cart : RemoveFromCart(cart[i].product.id)
    \/ ClearCart
    \/ OpenCheckout
    \/ CloseCheckout
    \/ DismissAlert

SpecCart == Init /\ [][NextCart]_vars

(* ---------------------------- properties ------------------------------- *)

\* Handler r's request is answered 201 in this step: its save committed.
Commits(r) == pc[r] = "save" /\ pc'[r] = "idle" /\ response'[r] = "Created"

\* Handler r's request ends in this step, with whatever answer.
Ends(r) == pc[r] = "save" /\ pc'[r] = "idle"

\* A body (or a stored transaction) that sells one unit of product id and
\* nothing else.
SellsOneUnit(t, id) ==
    /\ Len(t.items) = 1
    /\ t.items[1].productId = id
    /\ t.items[1].quantity = 1

\* C1: of two overlapping requests that each sell the one unit in stock of the
\* same product, only one is answered 201.  A handler that read stock 1, and
\* whose save finds the unit sold by a request stored since it began, must
\* not commit.
C1_OneOfTwoRacingSalesIsRejected ==
    [][\A r \in Requests, id \in DOMAIN products :
          ( /\ pc[r] = "save"
            /\ SellsOneUnit(ctx[r].body, id)
            /\ id \in DOMAIN ctx[r].tracked
            /\ ctx[r].tracked[id].original = 1
            /\ products[id].stock = 0
            /\ \E i \in (ctx[r].count + 1)..Len(transactions) :
                  SellsOneUnit(transactions[i], id) )
          => ~Commits(r)]_vars

\* C2: no two stored transactions carry the same transaction number.
C2_TransactionNumbersAreUnique ==
    \A i, j \in DOMAIN transactions :
        i # j => transactions[i].transactionNumber # transactions[j].transactionNumber

\* C3: with requests served one after another, each stored transaction's
\* number (the value of the zero-padded counter after "TXN-") is strictly
\* greater than the number of every transaction stored before it.
C3_SequentialNumbersIncrease ==
    \A i, j \in DOMAIN transactions :
        i < j =>
            /\ transactions[i].transactionNumber.prefix = "TXN-"
            /\ transactions[j].transactionNumber.prefix = "TXN-"
            /\ DigitsValue(transactions[i].transactionNumber.digits)
                 < DigitsValue(transactions[j].transactionNumber.digits)

\* C3's case: two transactions have been stored, one after the other.
C3_Witness == Len(transactions) >= 2

\* Handler r found the product of every line of its request: each named
\* product is tracked and carries the decrement of all the lines naming it.
FoundEveryLine(r) ==
    /\ \A i \in DOMAIN ctx[r].body.items :
          ctx[r].body.items[i].productId \in DOMAIN ctx[r].tracked
    /\ \A id \in DOMAIN ctx[r].tracked :
          ctx[r].tracked[id].stock
              = ctx[r].tracked[id].original - SumQuantity(ctx[r].body.items, id)

\* C4: a request answered 201, all of whose lines name stored products, lowers
\* the stock of every product by the sum of the quantities of the lines that
\* name it, and so leaves the stock of a product no line names as it was.
C4_CommitDecrementsStockByQuantity ==
    [][\A r \in Requests :
          (Commits(r) /\ FoundEveryLine(r)) =>
              \A id \in DOMAIN products :
                  products'[id].stock
                      = products[id].stock - SumQuantity(ctx[r].body.items, id)]_vars

\* C5: every stored transaction has total = subtotal - discount + tax.
C5_TotalIsSubtotalLessDiscountPlusTax ==
    \A i \in DOMAIN transactions :
        transactions[i].total
            = transactions[i].subtotal - transactions[i].discount + transactions[i].tax

\* C6: when a transaction is stored, each of its items has a quantity no
\* greater than the stock its product had immediately before.
C6_QuantityWithinStockAtCreation ==
    [][\A r \in Requests :
          Commits(r) =>
              \A i \in DOMAIN ctx[r].body.items :
                  LET item == ctx[r].body.items[i]
                  IN  item.productId \in DOMAIN products
                          => item.quantity <= products[item.productId].stock]_vars

\* C7: createTransaction is atomic.  Until its save a handler changes neither
\* table; the save either stores the transaction (with its items) together
\* with every stock value its context holds, or, when the store fails, leaves
\* both tables as they were.
C7_CreateTransactionIsAtomic ==
    [][\A r \in Requests :
          ctx'[r] # ctx[r] =>
              \/ /\ Commits(r)
                 /\ Len(transactions') = Len(transactions) + 1
                 /\ transactions'[Len(transactions')].items = ctx[r].body.items
                 /\ SubSeq(transactions', 1, Len(transactions)) = transactions
                 /\ \A id \in DOMAIN ctx[r].tracked :
                        products'[id].stock = ctx[r].tracked[id].stock
              \/ /\ ~Commits(r)
                 /\ UNCHANGED <<products, transactions>>]_vars

\* C7's case: a save failed after its handler had decremented an entity, and
\* another request was stored.
C7_Witness ==
    \E r, q \in Requests :
        /\ response[r] = "Error"
        /\ response[q] = "Created"
        /\ Len(transactions) = 1
        /\ \E id \in DOMAIN products : products[id].stock = 1

\* C8: a request with a line whose product id matches no stored product is
\* not answered 201, stores no transaction and changes no stock.
C8_MissingProductIsRejected ==
    [][\A r \in Requests :
          ( /\ Ends(r)
            /\ \E i \in DOMAIN ctx[r].body.items :
                  ctx[r].body.items[i].productId \notin DOMAIN products )
          => /\ response'[r] # "Created"
             /\ UNCHANGED <<products, transactions>>]_vars

\* C9: a request with no line, or with a line of quantity <= 0, is not
\* answered 201, stores no transaction and changes no stock.
C9_EmptyOrNonPositiveLinesAreRejected ==
    [][\A r \in Requests :
          ( /\ Ends(r)
            /\ \/ Len(ctx[r].body.items) = 0
               \/ \E i \in DOMAIN ctx[r].body.items :
                     ctx[r].body.items[i].quantity <= 0 )
          => /\ response'[r] # "Created"
             /\ UNCHANGED <<products, transactions>>]_vars

\* C10: a product has stock >= 0 and price > 0 right after its creation, and
\* a stored product is never changed to have stock < 0 or price <= 0.
C10_CatalogKeepsStockAndPriceValid ==
    [][/\ Len(products') > Len(products) =>
              /\ products'[Len(products')].stock >= 0
              /\ products'[Len(products')].price > 0
       /\ \A id \in DOMAIN products :
              products'[id] # products[id] =>
                  /\ products'[id].stock >= 0
                  /\ products'[id].price > 0]_vars

\* C11: an update leaves every member that its request does not give equal to
\* its value before the update.
C11_UpdateLeavesAbsentFieldsUnchanged ==
    [][(call'.op = "PUT" /\ call'.status = "Ok")
       => \A f \in Fields \ call'.has :
             products'[call'.id][f] = products[call'.id][f]]_vars

\* C12: a product that is not active is not active after any step, and is not
\* in the list of GET /api/products.
C12_DeactivationIsTerminal ==
    [][\A id \in DOMAIN products :
         ~products[id].isActive
           => /\ ~products'[id].isActive
              /\ \A i \in DOMAIN GetProducts' : GetProducts'[i].id # id]_vars

\* C13: a deactivate of a product that is already deactivated is answered
\* with success and leaves the store as it was.
C13_DeactivateIsIdempotent ==
    [][(/\ call' # call
        /\ call'.op = "DELETE"
        /\ call'.id \in DOMAIN products
        /\ ~products[call'.id].isActive)
       => /\ call'.status = "Ok"
          /\ ~products'[call'.id].isActive
          /\ products' = products]_vars

\* C13 happens: a deactivate found a deactivated product and said Ok.
C13_Witness ==
    /\ call.op = "DELETE"
    /\ call.status = "Ok"
    /\ ~call.foundActive
    /\ ~products[call.id].isActive

\* C14: a step changes the stored transactions only when a createTransaction
\* commits, and then it adds one transaction after the others, which stay as
\* they were; a catalog request changes none.
C14_StoredTransactionsAreImmutable ==
    [][/\ Len(transactions') >= Len(transactions)
       /\ SubSeq(transactions', 1, Len(transactions)) = transactions
       /\ transactions' # transactions
            => /\ \E r \in Requests : Commits(r)
               /\ Len(transactions') = Len(transactions) + 1
       /\ call' # call => transactions' = transactions]_vars

\* C14 happens: an update answered Ok gave a product another price than the
\* one on a stored line that names it.
C14_Witness ==
    /\ call.op = "PUT"
    /\ call.status = "Ok"
    /\ \E i \in DOMAIN transactions : \E j \in DOMAIN transactions[i].items :
          /\ transactions[i].items[j].productId = call.id
          /\ transactions[i].items[j].price # products[call.id].price
          /\ transactions[i].items[j].productName # products[call.id].name

\* C15: the low-stock count is the number of active products with stock below
\* 10, and creating an active product with stock 5 raises it by one.
C15_LowStockCountsActiveProductsBelowTen ==
    /\ [](LowStockCount =
             Cardinality({ id \in DOMAIN products :
                             products[id].isActive /\ products[id].stock < 10 }))
    /\ [][(/\ call' # call
            /\ call'.op = "POST"
            /\ products'[call'.id].isActive
            /\ products'[call'.id].stock = 5)
           => LowStockCount' = LowStockCount + 1]_vars

\* C15 happens: a product with stock 5 was created and is counted, next to a
\* deactivated product with stock below 10 that is not.
C15_Witness ==
    /\ call.op = "POST"
    /\ products[call.id].stock = 5
    /\ LowStockCount = 1
    /\ \E id \in DOMAIN products : ~products[id].isActive /\ products[id].stock < 10

\* The UTC calendar day an instant lies in.
Day(t) == t \div DayLength

\* The stored transactions created in the day the clock shows.
CreatedToday == { i \in DOMAIN transactions : Day(transactions[i].createdAt) = Day(now) }

RECURSIVE SumOfTotal(_)
\* Sum of total over the stored transactions with an index in S.
SumOfTotal(S) ==
    IF S = {} THEN 0
    ELSE LET i == CHOOSE x \in S : TRUE
         IN  transactions[i].total + SumOfTotal(S \ {i})

\* C16: today's revenue is the sum of total over the transactions created in
\* the current UTC day, and today's count is their number.
C16_TodayFiguresCoverTheCurrentDay ==
    /\ TodayRevenue = SumOfTotal(CreatedToday)
    /\ TodayTransactions = Cardinality(CreatedToday)

\* C16 happens: a sale of an earlier day and a sale of today are stored.
C16_Witness ==
    /\ \E i \in DOMAIN transactions :
          Day(transactions[i].createdAt) < Day(now) /\ transactions[i].total > 0
    /\ \E i \in CreatedToday : transactions[i].total > 0

\* C17: the list of GET /api/products holds every active product once, no
\* deactivated product, and nothing else.
C17_ListHoldsExactlyTheActiveProducts ==
    /\ \A id \in DOMAIN products :
          Cardinality({ i \in DOMAIN GetProducts : GetProducts[i].id = id })
            = IF products[id].isActive THEN 1 ELSE 0
    /\ \A i \in DOMAIN GetProducts :
          /\ GetProducts[i].id \in DOMAIN products
          /\ GetProducts[i].product = products[GetProducts[i].id]

\* C17 happens: after sales, an active and a deactivated product are stored.
C17_Witness ==
    /\ Len(transactions) >= 1
    /\ \E id \in DOMAIN products : products[id].isActive
    /\ \E id \in DOMAIN products : ~products[id].isActive

\* C18: an id that get(id) finds is found after any step, with its product; an
\* id that get(id) does not find is found after a step only when that step
\* created it; and a created id is found.
C18_ProductsAreNeverRemoved ==
    [][/\ \A id \in 1..(MaxProducts + 1) :
            GetProduct(id).status = "Ok"
              => /\ GetProduct(id)'.status = "Ok"
                 /\ GetProduct(id)'.body[1].id = id
       /\ \A id \in 1..(MaxProducts + 1) :
            (GetProduct(id).status = "NotFound" /\ GetProduct(id)'.status = "Ok")
              => call' = [op |-> "POST", id |-> id, has |-> {}, status |-> "Created",
                          foundActive |-> FALSE]
       /\ \A id \in 1..(MaxProducts + 1) :
            (call' # call /\ call'.op = "POST" /\ call'.id = id)
              => GetProduct(id)'.status = "Ok"]_vars

\* C18 happens: get finds a product that a deactivate just turned off, and
\* does not find the id no request created.
C18_Witness ==
    /\ call.op = "DELETE"
    /\ call.status = "Ok"
    /\ GetProduct(call.id).status = "Ok"
    /\ ~GetProduct(call.id).body[1].product.isActive
    /\ GetProduct(Len(products) + 1).status = "NotFound"

\* C19: every stored transaction has status "completed", and the transaction
\* a commit adds has it whatever status the request gave.
C19_StoredStatusIsCompleted ==
    /\ [](\A i \in DOMAIN transactions : transactions[i].status = "completed")
    /\ [][\A r \in Requests :
            Commits(r) => transactions'[Len(transactions')].status = "completed"]_vars

\* C19 happens: a transaction is stored, and every request gave another
\* status than "completed".
C19_Witness ==
    /\ \E i \in DOMAIN transactions : transactions[i].status = "completed"
    /\ \A body \in ShopBodies : body.status # "completed"

\* Two characters that differ at most in case.
SameLetter(a, b) == a = b \/ {a, b} \in {{"a", "A"}, {"b", "B"}}

\* A text contains a part when compared case-insensitively.
ContainsIgnoringCase(text, part) ==
    \E i \in 0..(Len(text) - Len(part)) :
        \A k \in 1..Len(part) : SameLetter(text[i + k], part[k])

\* How often a list holds a product.
Occurrences(list, product) == Cardinality({ i \in DOMAIN list : list[i] = product })

\* A filtered list holds exactly the products of a list that a term selects.
SelectsExactly(filtered, list, term) ==
    /\ \A product \in ScreenProducts :
          Occurrences(filtered, product) =
            IF \/ ContainsIgnoringCase(product.name, term)
               \/ ContainsIgnoringCase(product.category, term)
            THEN Occurrences(list, product)
            ELSE 0
    /\ term = << >> => filtered = list

\* C20: on both screens the filtered list holds exactly the loaded products
\* whose name or category contains the search term case-insensitively, and
\* all of them when the term is empty.
C20_SearchSelectsByNameOrCategory ==
    /\ SelectsExactly(FilteredProducts, loaded["products"], searchQuery["products"])
    /\ SelectsExactly(PosFilteredProducts, loaded["pos"], searchQuery["pos"])

\* C20 happens: a term in capitals selects one of two loaded products by its
\* category only, and a term of mixed case selects a product by its name.
C20_Witness ==
    /\ searchQuery["products"] = <<"b", "B">>
    /\ Len(loaded["products"]) = 2
    /\ Len(FilteredProducts) = 1
    /\ searchQuery["pos"] = <<"a", "B">>
    /\ Len(PosFilteredProducts) >= 1

\* C21: an update whose request gives stock 0, on a product with another
\* stock, leaves the product with stock 0.
C21_UpdateAppliesZeroStock ==
    [][\A id \in DOMAIN products : \A body \in StockOutBodies :
          (products[id].stock # 0 /\ PutProduct(id, body))
            => products'[id].stock = 0]_vars

\* The units of product id on the lines of all stored transactions.
Sold(id) ==
    LET RECURSIVE SoldIn(_)
        SoldIn(n) == IF n = 0 THEN 0
                     ELSE SoldIn(n - 1) + SumQuantity(transactions[n].items, id)
    IN  SoldIn(Len(transactions))

\* C22: with no update of products, a step keeps, for every stored product,
\* its stock plus the units of it on stored lines; the commit of a request
\* that did not find the product of one of its lines is left aside.
C22_StockIsConservedUnderConcurrency ==
    [][(\A r \in Requests : Commits(r) => FoundEveryLine(r))
       => \A id \in DOMAIN products :
             products'[id].stock + Sold(id)' = products[id].stock + Sold(id)]_vars

\* C23: the transaction a POS checkout stores has the lines of the body sent,
\* each with the name, unit price and quantity sent and total = price x
\* quantity, subtotal = the sum of the line totals, tax 0, discount 0 and
\* total = subtotal.
C23_CheckoutIsStoredAsSent ==
    [][\A n \in Requests :
          (Commits(n) /\ n \in DOMAIN requests) =>
            LET stored == transactions'[Len(transactions')]
                sent == requests[n]
            IN  /\ Len(stored.items) = Len(sent.items)
                /\ \A j \in DOMAIN sent.items :
                      /\ stored.items[j].productName = sent.items[j].product_name
                      /\ stored.items[j].price = sent.items[j].price
                      /\ stored.items[j].quantity = sent.items[j].quantity
                      /\ stored.items[j].total
                            = sent.items[j].price * sent.items[j].quantity
                /\ stored.subtotal = SumTotals(stored.items)
                /\ stored.tax = 0
                /\ stored.discount = 0
                /\ stored.total = stored.subtotal]_vars

\* C24: every cart entry has 1 <= quantity <= the stock of its product.
C24_CartQuantityWithinSnapshotStock ==
    \A i \in DOMAIN cart :
        1 <= cart[i].quantity /\ cart[i].quantity <= cart[i].product.stock

\* C25: at most one request of the POS screen awaits its response.
C25_OneCheckoutInFlight == Cardinality(pending) <= 1

\* C25 happens: the second checkout is in flight, after the first was
\* settled, and the modal shows its disabled button.
C25_Witness ==
    /\ pending = {2}
    /\ processing
    /\ ModalShown

\* C26: a step of processTransaction, an alert, or the OK of an alert leaves
\* the cart and the modal as they were, except the OK of the success alert,
\* which empties the cart and closes the modal.
C26_OnlyAcknowledgedSuccessEmptiesCart ==
    [][(requests' # requests \/ pending' # pending \/ alerts' # alerts)
       => IF Len(alerts') < Len(alerts) /\ alerts[Len(alerts)] = "success"
          THEN cart' = << >> /\ ~showCheckout'
          ELSE cart' = cart /\ showCheckout' = showCheckout]_vars

\* C26 happens: a checkout failed, its alert was acknowledged, and the cart
\* still holds its entries in the open modal.
C26_Witness ==
    /\ Len(requests) >= 1
    /\ pending = {}
    /\ \A n \in DOMAIN requests : response[n] # "Created"
    /\ alerts = << >>
    /\ cart # << >>
    /\ showCheckout

\* C27: whenever processing is set, it is cleared later.
C27_ProcessingIsEventuallyCleared == processing ~> ~processing

\* C27 happens: a checkout was answered with an error and processing is clear.
C27_Witness ==
    /\ ~processing
    /\ alerts # << >>
    /\ alerts[Len(alerts)] = "error"

\* C28: no two cart entries hold the same product id.
C28_OneCartEntryPerProduct ==
    \A i, j \in DOMAIN cart : cart[i].product.id = cart[j].product.id => i = j

\* C28 happens: two products are in the cart, one of them added twice.
C28_Witness ==
    /\ Len(cart) = 2
    /\ \E i \in DOMAIN cart : cart[i].quantity = 2

\* C29: while the cart is empty and processing is clear, no step sends a
\* request or sets processing, and no stored transaction is without lines.
C29_EmptyCartSendsNothing ==
    /\ [](\A i \in DOMAIN transactions : Len(transactions[i].items) > 0)
    /\ [][(cart = << >> /\ ~processing)
           => (requests' = requests /\ pending' = pending /\ ~processing')]_vars

\* C29 happens: Complete Transaction was pressed on an empty cart.
C29_Witness ==
    /\ alerts # << >>
    /\ alerts[Len(alerts)] = "empty"
    /\ cart = << >>
    /\ requests = << >>

\* C30: when the Reports screen has loaded a response, each of the five
\* members it reads is there and is the figure the stats endpoint computes.
C30_ReportsShowTheComputedFigures ==
    [][stats' # stats
       => /\ StatCards'.total_products = <<TotalProducts>>
          /\ StatCards'.total_transactions = <<TotalTransactions>>
          /\ StatCards'.today_revenue = <<TodayRevenue>>
          /\ StatCards'.today_transactions = <<TodayTransactions>>
          /\ StatCards'.low_stock_count = <<LowStockCount>>]_vars

====
